---- MODULE Spec2Model ----
(***************************************************************************)
(* The transaction-dispatch engine of the Diamante campaign tools, as a    *)
(* state machine.  Three programs share the engine's design:               *)
(*   "direct"       diamante.js : DiamanteSender.send / sendRound / main   *)
(*   "interactive"  cli.js      : sendTransaction / runSending / main      *)
(*   "browser"      the puppeteer CLI : initBrowser / sendViaBrowser /     *)
(*                  runSending / main                                      *)
(* A behaviour is one process of one of them.  An action runs the code     *)
(* from one suspension point (an await on a timer, a request, a prompt)    *)
(* to the next: JavaScript runs everything between two awaits without      *)
(* interleaving, and a signal handler only runs at such a point.           *)
(***************************************************************************)
EXTENDS Integers, Sequences, FiniteSets, TLC

VARIABLES
    prog,        \* which program this process runs
    cfg,         \* the configuration main()/runSending derived from argv and config.json
    pc,          \* the suspension point the process waits at
    queue,       \* the shuffled queue of the current round
    i,           \* loop index of the dispatch loop (0-based, as in the code)
    iter,        \* round counter of sendRound
    retryCount,  \* retryCount of the attempt in flight
    amount,      \* the amount of the task being dispatched
    stats,       \* DiamanteSender.stats
    tally,       \* runSending's locals success / failed / totalAmount
    results,     \* sendRound's results array; for the two interactive programs
                 \* the log of the per-task terminal results of the current run
    sendCount,   \* sendRound's sendCount map
    sendNum,     \* the "Send n/k" number printed for the task being dispatched
    ret,         \* the value the last send / sendTransaction / sendViaBrowser returned
    lastResp,    \* the response the last attempt received
    attempts,    \* number of requests issued for the current task
    rlSeen,      \* number of rate-limited answers received for the current task
    dispatched,  \* number of tasks whose first request was issued in this run
    inflight,    \* number of requests issued and not yet answered
    waited,      \* milliseconds of the last wait that elapsed, and its kind
    browser,     \* the module-level browser handle of the browser program
    page,        \* the module-level page handle of the browser program
    launched,    \* number of browser processes launched and not closed
    runs,        \* number of runSending invocations started (interactive programs)
    sigint,      \* a SIGINT was delivered
    summary,     \* the final summary was printed
    exitCode     \* the process exit code, NoExit while it runs

vars == << prog, cfg, pc, queue, i, iter, retryCount, amount, stats, tally, results,
           sendCount, sendNum, ret, lastResp, attempts, rlSeen, dispatched,
           inflight, waited, browser, page, launched, runs, sigint, summary, exitCode >>

----------------------------------------------------------------------------
(* Bounds of the model *)

MaxWallets == 2     \* longest recipient list
MaxSends   == 2     \* largest sendPerWallet
MaxQueue   == 4     \* longest queue a run processes in total
MaxRounds  == 2     \* rounds after which an unbounded continuous run is cut off
MaxAmount  == 2     \* largest amount per send
MaxRuns    == 2     \* runSending invocations per interactive process

(* Program constants *)

MAX_RETRIES == 3
\* exitCode while the process runs
NoExit == 0 - 1

AllWallets == << "0xAAA", "0xBBB", "0xCCC", "0xDDD", "0xEEE" >>

----------------------------------------------------------------------------
(* Sequences *)

Count(s, w) == Cardinality({ k \in 1..Len(s) : s[k] = w })

Range(s) == { s[k] : k \in 1..Len(s) }

----------------------------------------------------------------------------
(* Recipient Queue Builder *)

\* A swap that loses an element: a[i] = a[j] alone
SwapOverwrite(a, x, y) == [a EXCEPT ![x] = a[y]]

\* [a[i], a[j]] = [a[j], a[i]]
Swap(a, x, y) == [a EXCEPT ![x] = a[y], ![y] = a[x]]

\* The loop of shuffle from index n down (1-based: the code's i is n - 1):
\* j = Math.floor(Math.random() * (i + 1)) is any index 0..i.
RECURSIVE ShuffleFrom(_, _)
ShuffleFrom(a, n) ==
    IF n <= 1 THEN { a }
    ELSE UNION { ShuffleFrom(Swap(a, n, j), n - 1) : j \in 1..n }

\* const a = [...arr]; for (let i = a.length - 1; i > 0; i--) ...
shuffle(arr) == ShuffleFrom(arr, Len(arr))

\* for (let i = 0; i < sendPerWallet; i++) queue.push(wallet)
RECURSIVE Repeat(_, _)
Repeat(w, k) == IF k <= 0 THEN << >> ELSE << w >> \o Repeat(w, k - 1)

\* for (const wallet of wallets) ...: the flat list before it is shuffled
RECURSIVE Flat(_, _)
Flat(wallets, k) ==
    IF wallets = << >> THEN << >>
    ELSE Repeat(Head(wallets), k) \o Flat(Tail(wallets), k)

buildQueue(wallets, k) == shuffle(Flat(wallets, k))

----------------------------------------------------------------------------
(* Configuration *)

Programs == { "direct", "interactive", "browser" }

WalletLists ==
    { SubSeq(AllWallets, 1, n) : n \in 0..MaxWallets }
        \cup { << AllWallets[1], AllWallets[1] >> }

WalletSet == Range(AllWallets)

\* JavaScript's  v || d  on a number: 0, NaN, null and undefined are falsy
\* (an absent option is modelled as 0).
OrDefault(v, d) == IF v = 0 THEN d ELSE v

QueueLen(c) == Len(c.wallets) * (IF c.sendPerWallet > 0 THEN c.sendPerWallet ELSE 0)

\* Rounds a run of the model makes: an unbounded continuous run is cut off
\* after MaxRounds rounds.
RoundsOf(c) ==
    IF ~c.continuous THEN 1
    ELSE IF c.maxIter = 0 \/ c.maxIter > MaxRounds THEN MaxRounds
    ELSE c.maxIter

\* main() of diamante.js: token / wallets / amount / sendPerWallet /
\* continuous / maxIter from argv or config.json.
\* sendsArg is the value given for sendPerWallet, before  || 2  is applied;
\* 0 is the option given as 0 (an absent option is falsy as well and takes
\* the same path).
DirectConfigs ==
    { [ token         |-> t,
        wallets       |-> w,
        sendsArg      |-> s,
        sendPerWallet |-> OrDefault(s, 2),
        amount        |-> a,
        continuous    |-> c,
        maxIter       |-> m,
        history       |-> h ] :
      t \in BOOLEAN, w \in WalletLists, s \in (-1)..MaxSends, a \in 1..MaxAmount,
      c \in BOOLEAN, m \in 0..MaxRounds, h \in BOOLEAN }

\* runSending of cli.js and of the browser CLI: config.wallets || [],
\* config.sendPerWallet || 2, config.amountPerSend || 1.  The continuous and
\* maxIterations settings are stored by the settings menu and never read.
MenuConfigs ==
    { [ token         |-> t,
        wallets       |-> w,
        sendsArg      |-> s,
        sendPerWallet |-> OrDefault(s, 2),
        amount        |-> OrDefault(a, 1),
        continuous    |-> c,
        maxIter       |-> 0,
        history       |-> FALSE ] :
      t \in BOOLEAN, w \in WalletLists, s \in (-1)..MaxSends, a \in 0..MaxAmount,
      c \in BOOLEAN }

Configs(p) ==
    { c \in (IF p = "direct" THEN DirectConfigs ELSE MenuConfigs) :
        QueueLen(c) * RoundsOf(c) <= MaxQueue }

----------------------------------------------------------------------------
(* Transfer Submitter: what one request can answer *)

Messages == { "", "Too Many Requests", "guardian cooldown" }

\* throws   : fetch (or reading the body) rejects
\* http429  : data.status === 429 || res.status === 429
\* json     : the body parses as JSON
\* success  : data.success === true
\* message  : data.message ("" when absent)
Responses ==
    { r \in [ throws : BOOLEAN, http429 : BOOLEAN, json : BOOLEAN,
              success : BOOLEAN, message : Messages ] :
        /\ r.throws => (~r.http429 /\ ~r.json)
        /\ ~r.json => (~r.success /\ r.message = "") }

NoResp == [ throws |-> FALSE, http429 |-> FALSE, json |-> FALSE,
            success |-> FALSE, message |-> "none" ]

NoRet == [ success |-> FALSE, error |-> "none", retry |-> FALSE ]

NoWait == [ kind |-> "none", ms |-> 0 ]

\* Values Math.random() takes, in thousandths: the smallest one and one
\* just below 1
Draws == { 0, 999 }

\* The configured delay range of each program by default, in milliseconds
DelayRange(p) ==
    IF p = "direct" THEN [ min |-> 1500, max |-> 4000 ]
    ELSE IF p = "interactive" THEN [ min |-> 92400, max |-> 143700 ]
    ELSE [ min |-> 90000, max |-> 150000 ]

\* min + Math.random() * (max - min)
Jitter(range, r) == range.min + (r * (range.max - range.min)) \div 1000

\* Math.floor of a duration to whole seconds
FloorSeconds(t) == (t \div 1000) * 1000

\* humanDelay(): sleep(delay * 1000) with the delay as drawn
humanDelay(r) == Jitter(DelayRange("direct"), r)

\* The countdown of runSending: Math.floor(...) iterations of sleep(1000)
Countdown(p, r) == FloorSeconds(Jitter(DelayRange(p), r))

ZeroCount == [ w \in WalletSet |-> 0 ]

----------------------------------------------------------------------------
(* diamante.js : DiamanteSender.send *)

\* if (data.status === 429 || res.status === 429)
DirectRateLimited(r) == ~r.throws /\ r.http429

\* Retry guards off by one, in either direction
MayRetryInclusive(rc) == rc <= MAX_RETRIES
MayRetryEarly(rc) == rc < MAX_RETRIES - 1

\* if (retryCount < MAX_RETRIES)
MayRetry(rc) == rc < MAX_RETRIES

\* A wait that doubles with each retry
DirectWaitTimeDoubling(rc) == 5 * 2 ^ rc

\* const waitTime = 5 + retryCount * 3
DirectWaitTime(rc) == 5 + rc * 3

\* A classification by transport alone, ignoring data.success
DirectOutcomeByStatus(r) ==
    IF r.throws THEN [ success |-> FALSE, error |-> "fetch failed", retry |-> FALSE ]
    ELSE [ success |-> TRUE, error |-> "", retry |-> FALSE ]

\* The value send returns for a terminal response: the catch branch, the
\* success branch (data.success === true), or the failure branch with
\* errMsg = data.message || data.error || JSON.stringify(data).slice(0, 60).
DirectOutcome(r) ==
    IF r.throws THEN [ success |-> FALSE, error |-> "fetch failed", retry |-> FALSE ]
    ELSE IF r.json /\ r.success THEN [ success |-> TRUE, error |-> "", retry |-> FALSE ]
    ELSE [ success |-> FALSE,
           error   |-> IF r.message # "" THEN r.message ELSE "{json}",
           retry   |-> FALSE ]

\* Tallies that add 1 instead of the amount, or count a failure twice
DirectCountOne(s, out, amt) ==
    IF out.success
    THEN [ s EXCEPT !.success = @ + 1, !.amount = @ + 1 ]
    ELSE [ s EXCEPT !.failed = @ + 1 ]
DirectCountTwice(s, out, amt) ==
    IF out.success
    THEN [ s EXCEPT !.success = @ + 1, !.amount = @ + amt ]
    ELSE [ s EXCEPT !.failed = @ + 2 ]

\* stats after a terminal outcome: success++ and amount += Number(amount),
\* or failed++
DirectCount(s, out, amt) ==
    IF out.success
    THEN [ s EXCEPT !.success = @ + 1, !.amount = @ + amt ]
    ELSE [ s EXCEPT !.failed = @ + 1 ]

\* A total that is counted when a retry starts, not on the first attempt
DirectFirstAttemptOnRetry(s, rc) ==
    IF rc = 1 THEN [ s EXCEPT !.total = @ + 1, !.start = TRUE ] ELSE s

\* A total that counts every attempt
DirectFirstAttemptAlways(s, rc) == [ s EXCEPT !.total = @ + 1, !.start = TRUE ]

\* if (retryCount === 0) { this.stats.total++; if (!start) start = Date.now() }
DirectFirstAttempt(s, rc) ==
    IF rc = 0 THEN [ s EXCEPT !.total = @ + 1, !.start = TRUE ] ELSE s

\* process.exit(results.some(r => !r.success) ? 1 : 0)
DirectExitCode(res) ==
    IF \E k \in 1..Len(res) : ~res[k].success THEN 1 ELSE 0

----------------------------------------------------------------------------
(* Initial state: a process of one of the programs, just started *)

Init ==
    /\ prog \in Programs
    /\ cfg \in Configs(prog)
    /\ pc = "start"
    /\ queue = << >>
    /\ i = 0
    /\ iter = 0
    /\ retryCount = 0
    /\ amount = 0
    /\ stats = [ total |-> 0, success |-> 0, failed |-> 0, amount |-> 0, start |-> FALSE ]
    /\ tally = [ success |-> 0, failed |-> 0, totalAmount |-> 0 ]
    /\ results = << >>
    /\ sendCount = ZeroCount
    /\ sendNum = 0
    /\ ret = NoRet
    /\ lastResp = NoResp
    /\ attempts = 0
    /\ rlSeen = 0
    /\ dispatched = 0
    /\ inflight = 0
    /\ waited = NoWait
    /\ browser = "null"
    /\ page = "null"
    /\ launched = 0
    /\ runs = 0
    /\ sigint = FALSE
    /\ summary = FALSE
    /\ exitCode = NoExit

const == << prog, cfg >>
menuVars == << tally, amount, browser, page, launched, runs >>
sendVars == << sendCount, sendNum, stats, retryCount, attempts, rlSeen, dispatched,
              inflight >>

\* process.exit(code)
Exit(code) ==
    /\ pc' = "exited"
    /\ exitCode' = code

----------------------------------------------------------------------------
(* diamante.js : DiamanteSender.sendRound and main *)

\* A round end that never leaves the loop
DirectRoundDoneNoBreak(n, res) ==
    /\ pc' = "pause"
    /\ UNCHANGED << summary, exitCode >>

\* A round end that leaves the loop only when continuous mode is off
DirectRoundDoneIgnoreMax(n, res) ==
    IF ~cfg.continuous
    THEN /\ summary' = TRUE
         /\ Exit(DirectExitCode(res))
    ELSE /\ pc' = "pause"
         /\ UNCHANGED << summary, exitCode >>

\* The end of a round: printSummary and process.exit when the run is over
\* (if (!continuous) break; if (maxIter && iter >= maxIter) break), and
\* otherwise the 5 s pause before the next round.
DirectRoundDone(n, res) ==
    IF ~cfg.continuous \/ (cfg.maxIter # 0 /\ n >= cfg.maxIter)
    THEN /\ summary' = TRUE
         /\ Exit(DirectExitCode(res))
    ELSE /\ pc' = "pause"
         /\ UNCHANGED << summary, exitCode >>

\* A sequence number taken from the position in the queue
DirectSendCallByPosition(q, idx, cnt) ==
    LET w == q[idx + 1] IN
    /\ sendCount' = [cnt EXCEPT ![w] = @ + 1]
    /\ sendNum' = idx + 1
    /\ stats' = DirectFirstAttempt(stats, 0)
    /\ retryCount' = 0
    /\ attempts' = 1
    /\ rlSeen' = 0
    /\ dispatched' = dispatched + 1
    /\ inflight' = inflight + 1
    /\ pc' = "fetch"

\* sendCount[wallet]++; sendNum = sendCount[wallet]; this.send(wallet, amount)
\* up to its await fetch(...)
DirectSendCall(q, idx, cnt) ==
    LET w == q[idx + 1] IN
    /\ sendCount' = [cnt EXCEPT ![w] = @ + 1]
    /\ sendNum' = cnt[w] + 1
    /\ stats' = DirectFirstAttempt(stats, 0)
    /\ retryCount' = 0
    /\ attempts' = 1
    /\ rlSeen' = 0
    /\ dispatched' = dispatched + 1
    /\ inflight' = inflight + 1
    /\ pc' = "fetch"

\* A delay condition that looks at the position in the round alone
NeedsDelayInRound(idx, n) == idx > 0

\* if (i > 0 || iter > 1) await humanDelay()
NeedsDelay(idx, n) == idx > 0 \/ n > 1

\* A round entry that starts the statistics afresh
DirectEnterRoundReset(n) ==
    \E q \in buildQueue(cfg.wallets, cfg.sendPerWallet) :
        /\ queue' = q
        /\ iter' = n
        /\ i' = 0
        /\ IF Len(q) = 0
           THEN /\ DirectRoundDone(n, results)
                /\ sendCount' = ZeroCount
                /\ UNCHANGED << sendNum, stats, retryCount, attempts, rlSeen, dispatched,
                                inflight >>
           ELSE IF n > 1
           THEN /\ pc' = "delay"
                /\ sendCount' = ZeroCount
                /\ stats' = [ stats EXCEPT !.total = 0, !.success = 0, !.failed = 0,
                                           !.amount = 0 ]
                /\ UNCHANGED << sendNum, retryCount, attempts, rlSeen, dispatched,
                                inflight, summary, exitCode >>
           ELSE /\ DirectSendCall(q, 0, ZeroCount)
                /\ UNCHANGED << summary, exitCode >>

\* iter++; queue = buildQueue(); sendCount reset; then the for loop up to
\* its first await: humanDelay() if (i > 0 || iter > 1), else the first send.
DirectEnterRound(n) ==
    \E q \in buildQueue(cfg.wallets, cfg.sendPerWallet) :
        /\ queue' = q
        /\ iter' = n
        /\ i' = 0
        /\ IF Len(q) = 0
           THEN /\ DirectRoundDone(n, results)
                /\ sendCount' = ZeroCount
                /\ UNCHANGED << sendNum, stats, retryCount, attempts, rlSeen, dispatched,
                                inflight >>
           ELSE IF NeedsDelay(0, n)
           THEN /\ pc' = "delay"
                /\ sendCount' = ZeroCount
                /\ UNCHANGED << sendNum, stats, retryCount, attempts, rlSeen, dispatched,
                                inflight, summary, exitCode >>
           ELSE /\ DirectSendCall(q, 0, ZeroCount)
                /\ UNCHANGED << summary, exitCode >>

\* A configuration check that tests the credential alone
ConfigErrorTokenOnly(c) == ~c.token

\* if (!token) { ...; process.exit(1) }
\* if (wallets.length === 0) { ...; process.exit(1) }
ConfigError(c) == ~c.token \/ c.wallets = << >>

\* main(): the configuration checks, then getHistory or sendRound
DirectMain ==
    /\ prog = "direct"
    /\ pc = "start"
    /\ IF ConfigError(cfg)
       THEN /\ Exit(1)
            /\ UNCHANGED << queue, iter, i, sendVars, summary >>
       ELSE IF cfg.history
       THEN /\ pc' = "history"
            /\ UNCHANGED << queue, iter, i, sendVars, summary, exitCode >>
       ELSE DirectEnterRound(1)
    /\ UNCHANGED << const, menuVars, results, ret, lastResp, waited, sigint >>

\* --history: getHistory() answers and main returns, or it rejects and
\* main().catch exits 1
DirectHistoryDone ==
    /\ prog = "direct"
    /\ pc = "history"
    /\ \E ok \in BOOLEAN : Exit(IF ok THEN 0 ELSE 1)
    /\ UNCHANGED << const, menuVars, queue, iter, i, sendVars, results, ret,
                    lastResp, waited, sigint, summary >>

\* humanDelay() elapsed: the task at queue[i] is dispatched
DirectHumanDelayDone ==
    /\ prog = "direct"
    /\ pc = "delay"
    /\ \E r \in Draws : waited' = [ kind |-> "delay", ms |-> humanDelay(r) ]
    /\ DirectSendCall(queue, i, sendCount)
    /\ UNCHANGED << const, menuVars, queue, iter, i, results, ret, lastResp,
                    sigint, summary, exitCode >>

\* A retry that is not awaited: the loop moves on while the request is open
DirectRetryNoAwait ==
    /\ pc' = "delay"
    /\ inflight' = inflight
    /\ i' = i + 1
    /\ UNCHANGED << stats, ret, results, summary, exitCode >>

\* The rate-limit branch of send: await sleep(waitTime * 1000) before
\* return this.send(toAddress, amount, retryCount + 1)
DirectRetry ==
    /\ pc' = "backoff"
    /\ inflight' = inflight - 1
    /\ UNCHANGED << stats, ret, results, i, summary, exitCode >>

\* A loop that ends the round at the first failed task
DirectTerminalAbort(r) ==
    LET out == DirectOutcome(r) IN
    /\ inflight' = inflight - 1
    /\ stats' = DirectCount(stats, out, cfg.amount)
    /\ ret' = out
    /\ results' = Append(results, [ toAddress |-> queue[i + 1],
                                    success   |-> out.success,
                                    amount    |-> cfg.amount ])
    /\ i' = i + 1
    /\ IF i + 1 < Len(queue) /\ out.success
       THEN /\ pc' = "delay"
            /\ UNCHANGED << summary, exitCode >>
       ELSE DirectRoundDone(iter, results')

\* A terminal answer: send counts it and returns, sendRound pushes the
\* result and goes on to the next task or ends the round.
DirectTerminal(r) ==
    LET out == DirectOutcome(r) IN
    /\ inflight' = inflight - 1
    /\ stats' = DirectCount(stats, out, cfg.amount)
    /\ ret' = out
    /\ results' = Append(results, [ toAddress |-> queue[i + 1],
                                    success   |-> out.success,
                                    amount    |-> cfg.amount ])
    /\ i' = i + 1
    /\ IF i + 1 < Len(queue)
       THEN /\ pc' = "delay"
            /\ UNCHANGED << summary, exitCode >>
       ELSE DirectRoundDone(iter, results')

\* await fetch(...) / await res.text() completed (or rejected)
DirectFetchDone ==
    /\ prog = "direct"
    /\ pc = "fetch"
    /\ \E r \in Responses :
        /\ lastResp' = r
        /\ rlSeen' = IF DirectRateLimited(r) THEN rlSeen + 1 ELSE rlSeen
        /\ IF DirectRateLimited(r) /\ MayRetry(retryCount)
           THEN DirectRetry
           ELSE DirectTerminal(r)
    /\ waited' = NoWait
    /\ UNCHANGED << const, menuVars, queue, iter, sendCount, sendNum, retryCount,
                    attempts, dispatched, sigint >>

\* The backoff sleep elapsed: send(toAddress, amount, retryCount + 1) up
\* to its await fetch(...)
DirectBackoffDone ==
    /\ prog = "direct"
    /\ pc = "backoff"
    /\ waited' = [ kind |-> "backoff", ms |-> DirectWaitTime(retryCount) * 1000 ]
    /\ retryCount' = retryCount + 1
    /\ stats' = DirectFirstAttempt(stats, retryCount + 1)
    /\ attempts' = attempts + 1
    /\ UNCHANGED rlSeen
    /\ inflight' = inflight + 1
    /\ pc' = "fetch"
    /\ UNCHANGED << const, menuVars, queue, iter, i, sendCount, sendNum, dispatched,
                    results, ret, lastResp, sigint, summary, exitCode >>

\* await sleep(5000) elapsed: the next round (an unbounded run is cut off
\* after MaxRounds rounds)
DirectPauseDone ==
    /\ prog = "direct"
    /\ pc = "pause"
    /\ iter < MaxRounds
    /\ waited' = [ kind |-> "pause", ms |-> 5000 ]
    /\ DirectEnterRound(iter + 1)
    /\ UNCHANGED << const, menuVars, results, ret, lastResp, sigint >>

\* process.on('SIGINT', () => { ...; process.exit(130) }), installed before
\* sendRound is called
DirectSigint ==
    /\ prog = "direct"
    /\ pc \in { "fetch", "backoff", "delay", "pause" }
    /\ sigint' = TRUE
    /\ Exit(130)
    /\ UNCHANGED << const, menuVars, queue, iter, i, sendVars, results, ret,
                    lastResp, waited, summary >>

DirectNext ==
    \/ DirectMain
    \/ DirectHistoryDone
    \/ DirectHumanDelayDone
    \/ DirectFetchDone
    \/ DirectBackoffDone
    \/ DirectPauseDone
    \/ DirectSigint

----------------------------------------------------------------------------
(* cli.js : sendTransaction, runSending and main *)

CLI_MAX_RETRIES == 3

directVars == << iter, stats, sendCount, sendNum, summary >>

ZeroTally == [ success |-> 0, failed |-> 0, totalAmount |-> 0 ]

\* Counters that a run takes over from the run before it
StartTallyCarried(t) == t

\* let success = 0; let failed = 0; at the head of every runSending
StartTally(t) == ZeroTally

\* await res.json() rejects on a body that is no JSON
CliThrows(r) == r.throws \/ ~r.json

\* data.status === 429 || res.status === 429 ||
\* (data.message && data.message.includes('guardian'))
CliRateLimited(r) ==
    ~CliThrows(r) /\ (r.http429 \/ r.message = "guardian cooldown")

\* A retry guard of cli.js that allows one retry more
CliMayRetryInclusive(rc) == rc <= CLI_MAX_RETRIES

\* if (retryCount < MAX_RETRIES)
CliMayRetry(rc) == rc < CLI_MAX_RETRIES

\* const waitTime = 15 + retryCount * 10
CliWaitTime(rc) == 15 + rc * 10

\* What sendTransaction returns: { retry: true, waitTime, retryCount + 1 },
\* { success: true, hash }, { success: false, error: data.message || 'Failed' }
\* or, from the catch branch, { success: false, error: e.message }.
sendTransaction(r, rc) ==
    IF CliThrows(r)
    THEN [ success |-> FALSE, retry |-> FALSE,
           error |-> IF r.throws THEN "fetch failed" ELSE "Unexpected token" ]
    ELSE IF CliRateLimited(r) /\ CliMayRetry(rc)
    THEN [ success |-> FALSE, retry |-> TRUE, error |-> "" ]
    ELSE IF r.success
    THEN [ success |-> TRUE, retry |-> FALSE, error |-> "" ]
    ELSE [ success |-> FALSE, retry |-> FALSE,
           error |-> IF r.message # "" THEN r.message ELSE "Failed" ]

\* if (result.success) success++ else failed++
CliCount(t, out) ==
    IF out.success THEN [ t EXCEPT !.success = @ + 1 ]
    ELSE [ t EXCEPT !.failed = @ + 1 ]

\* main(): the token check (promptToken when config.accessToken is absent),
\* fetchAccountInfo, then the main menu
CliMain ==
    /\ prog = "interactive"
    /\ pc = "start"
    /\ \E given \in BOOLEAN :
        IF cfg.token \/ given
        THEN /\ pc' = "menu"
             /\ cfg' = [cfg EXCEPT !.token = TRUE]
             /\ UNCHANGED exitCode
        ELSE /\ Exit(1)
             /\ UNCHANGED cfg
    /\ UNCHANGED << prog, menuVars, directVars, queue, i, retryCount, results, ret,
                    lastResp, attempts, rlSeen, dispatched, inflight, waited, sigint >>

\* case 'exit': process.exit(0)
CliExit ==
    /\ prog = "interactive"
    /\ pc = "menu"
    /\ Exit(0)
    /\ UNCHANGED << const, menuVars, directVars, queue, i, retryCount, results, ret,
                    lastResp, attempts, rlSeen, dispatched, inflight, waited, sigint >>

\* case 'send': runSending(config) up to its first await: the sleep of the
\* "no wallets configured" return, or the first sendTransaction's fetch
CliRunSending ==
    /\ prog = "interactive"
    /\ pc = "menu"
    /\ runs < MaxRuns
    /\ runs' = runs + 1
    /\ tally' = StartTally(tally)
    /\ results' = << >>
    /\ ret' = NoRet
    /\ lastResp' = NoResp
    /\ waited' = NoWait
    /\ i' = 0
    /\ retryCount' = 0
    /\ rlSeen' = 0
    /\ IF cfg.wallets = << >>
       THEN /\ pc' = "nowallets"
            /\ attempts' = 0
            /\ dispatched' = 0
            /\ UNCHANGED << queue, inflight >>
       ELSE \E q \in buildQueue(cfg.wallets, cfg.sendPerWallet) :
            /\ queue' = q
            /\ IF Len(q) = 0
               THEN /\ pc' = "done"
                    /\ attempts' = 0
                    /\ dispatched' = 0
                    /\ UNCHANGED inflight
               ELSE /\ pc' = "fetch"
                    /\ attempts' = 1
                    /\ dispatched' = 1
                    /\ inflight' = inflight + 1
    /\ UNCHANGED << const, directVars, amount, browser, page, launched, sigint,
                    exitCode >>

\* await sleep(2000) after "no wallets configured": back to the menu
CliNoWalletsDone ==
    /\ prog = "interactive"
    /\ pc = "nowallets"
    /\ pc' = "menu"
    /\ UNCHANGED << const, menuVars, directVars, queue, i, retryCount, results, ret,
                    lastResp, attempts, rlSeen, dispatched, inflight, waited, sigint,
                    exitCode >>

\* The countdown of the inter-task delay ran out: sendTransaction(token,
\* userId, wallet, amount) up to its await fetch(...)
CliDelayDone ==
    /\ prog = "interactive"
    /\ pc = "delay"
    /\ \E r \in Draws : waited' = [ kind |-> "delay", ms |-> Countdown(prog, r) ]
    /\ retryCount' = 0
    /\ attempts' = 1
    /\ rlSeen' = 0
    /\ dispatched' = dispatched + 1
    /\ inflight' = inflight + 1
    /\ pc' = "fetch"
    /\ UNCHANGED << const, menuVars, directVars, queue, i, results, ret, lastResp,
                    sigint, exitCode >>

\* A loop that records a retry result as the task's result
CliRetryAsFailure(out) ==
    /\ tally' = CliCount(tally, out)
    /\ results' = Append(results, [ toAddress |-> queue[i + 1],
                                    success   |-> out.success,
                                    amount    |-> cfg.amount ])
    /\ i' = i + 1
    /\ pc' = IF i + 1 < Len(queue) THEN "delay" ELSE "done"

\* while (result.retry) { countdown; sendTransaction(..., result.retryCount) }
\* : a retry result keeps the task open
CliRetry(out) ==
    /\ pc' = "countdown"
    /\ UNCHANGED << tally, results, i >>

\* A terminal result: success++ or failed++, then the next task's delay, or
\* "done!" and await sleep(3000)
CliTerminal(out) ==
    /\ tally' = CliCount(tally, out)
    /\ results' = Append(results, [ toAddress |-> queue[i + 1],
                                    success   |-> out.success,
                                    amount    |-> cfg.amount ])
    /\ i' = i + 1
    /\ pc' = IF i + 1 < Len(queue) THEN "delay" ELSE "done"

\* await fetch(...) / await res.json() of sendTransaction completed
CliFetchDone ==
    /\ prog = "interactive"
    /\ pc = "fetch"
    /\ \E r \in Responses :
        LET out == sendTransaction(r, retryCount) IN
        /\ lastResp' = r
        /\ rlSeen' = IF CliRateLimited(r) THEN rlSeen + 1 ELSE rlSeen
        /\ ret' = out
        /\ inflight' = inflight - 1
        /\ IF out.retry THEN CliRetry(out) ELSE CliTerminal(out)
    /\ waited' = NoWait
    /\ UNCHANGED << const, directVars, amount, browser, page, launched, runs, queue,
                    retryCount, attempts, dispatched, sigint, exitCode >>

\* The rate-limit countdown ran out: sendTransaction(..., result.retryCount)
\* up to its await fetch(...)
CliCountdownDone ==
    /\ prog = "interactive"
    /\ pc = "countdown"
    /\ waited' = [ kind |-> "backoff", ms |-> CliWaitTime(retryCount) * 1000 ]
    /\ retryCount' = retryCount + 1
    /\ attempts' = attempts + 1
    /\ UNCHANGED rlSeen
    /\ inflight' = inflight + 1
    /\ pc' = "fetch"
    /\ UNCHANGED << const, menuVars, directVars, queue, i, results, ret, lastResp,
                    dispatched, sigint, exitCode >>

\* await sleep(3000) after "done!": runSending returns to the menu
CliDoneSleep ==
    /\ prog = "interactive"
    /\ pc = "done"
    /\ pc' = "menu"
    /\ UNCHANGED << const, menuVars, directVars, queue, i, retryCount, results, ret,
                    lastResp, attempts, rlSeen, dispatched, inflight, waited, sigint,
                    exitCode >>

\* cli.js installs no SIGINT handler: during a run the signal ends the
\* process (reported as 128 + 2)
CliSigint ==
    /\ prog = "interactive"
    /\ pc \in { "fetch", "countdown", "delay", "done", "nowallets" }
    /\ sigint' = TRUE
    /\ Exit(130)
    /\ UNCHANGED << const, menuVars, directVars, queue, i, retryCount, results, ret,
                    lastResp, attempts, rlSeen, dispatched, inflight, waited >>

CliNext ==
    \/ CliMain
    \/ CliExit
    \/ CliRunSending
    \/ CliNoWalletsDone
    \/ CliDelayDone
    \/ CliFetchDone
    \/ CliCountdownDone
    \/ CliDoneSleep
    \/ CliSigint

----------------------------------------------------------------------------
(* The browser CLI : initBrowser, closeBrowser, sendViaBrowser, runSending,
   main and the SIGINT handler *)

\* What sendViaBrowser returns; every path of it, the catch branch
\* included, returns { success, hash } or { success: false, error }.
BrowserOutcomes ==
    { [ success |-> TRUE,  retry |-> FALSE, error |-> "" ],
      [ success |-> FALSE, retry |-> FALSE, error |-> "Send button not found" ],
      [ success |-> FALSE, retry |-> FALSE, error |-> "Transaction rejected" ],
      [ success |-> FALSE, retry |-> FALSE, error |-> "exception" ] }

NotInitialized ==
    [ success |-> FALSE, retry |-> FALSE, error |-> "Browser not initialized" ]

\* A browser process stops when close() is called on its open handle
AfterClose(b, n) == IF b = "open" THEN n - 1 ELSE n

\* closeBrowser(): if (browser) { close; browser = null; page = null }
closeBrowser ==
    IF browser # "null"
    THEN /\ browser' = "null"
         /\ page' = "null"
         /\ launched' = AfterClose(browser, launched)
    ELSE UNCHANGED << browser, page, launched >>

\* if (result.success) { success++; totalAmount += parseFloat(amount) }
\* else failed++
BrowserCount(t, out, amt) ==
    IF out.success
    THEN [ t EXCEPT !.success = @ + 1, !.totalAmount = @ + amt ]
    ELSE [ t EXCEPT !.failed = @ + 1 ]

\* main(): the private-key check (promptPrivateKey when it is absent or
\* invalid), then the main menu
BrowserMain ==
    /\ prog = "browser"
    /\ pc = "start"
    /\ \E given \in BOOLEAN :
        IF cfg.token \/ given
        THEN /\ pc' = "menu"
             /\ cfg' = [cfg EXCEPT !.token = TRUE]
             /\ UNCHANGED exitCode
        ELSE /\ Exit(1)
             /\ UNCHANGED cfg
    /\ UNCHANGED << prog, menuVars, directVars, queue, i, retryCount, results, ret,
                    lastResp, attempts, rlSeen, dispatched, inflight, waited, sigint >>

\* case 'exit': await closeBrowser(); process.exit(0)
BrowserExit ==
    /\ prog = "browser"
    /\ pc = "menu"
    /\ closeBrowser
    /\ Exit(0)
    /\ UNCHANGED << const, directVars, tally, amount, runs, queue, i, retryCount,
                    results, ret, lastResp, attempts, rlSeen, dispatched, inflight, waited,
                    sigint >>

\* case 'send': runSending(config) up to its first await: the sleep of the
\* "no recipient wallets" return, or initBrowser
BrowserRunSending ==
    /\ prog = "browser"
    /\ pc = "menu"
    /\ runs < MaxRuns
    /\ runs' = runs + 1
    /\ tally' = StartTally(tally)
    /\ results' = << >>
    /\ ret' = NoRet
    /\ waited' = NoWait
    /\ i' = 0
    /\ attempts' = 0
    /\ rlSeen' = 0
    /\ dispatched' = 0
    /\ amount' = 0
    /\ IF cfg.wallets = << >>
       THEN /\ pc' = "nowallets"
            /\ UNCHANGED queue
       ELSE \E q \in buildQueue(cfg.wallets, cfg.sendPerWallet) :
            /\ queue' = q
            /\ pc' = "init"
    /\ UNCHANGED << const, directVars, browser, page, launched, retryCount, lastResp,
                    inflight, sigint, exitCode >>

\* await sleep(2000) after "no recipient wallets": back to the menu
BrowserNoWalletsDone ==
    /\ prog = "browser"
    /\ pc = "nowallets"
    /\ pc' = "menu"
    /\ UNCHANGED << const, menuVars, directVars, queue, i, retryCount, results, ret,
                    lastResp, attempts, rlSeen, dispatched, inflight, waited, sigint,
                    exitCode >>

\* initBrowser(privateKey, headless): a held browser is closed first; then
\* puppeteer.launch, browser.newPage and the page set-up each either
\* succeed or throw.  runSending catches the throw ("browser error"),
\* sleeps 3 s and returns.
InitSteps == { "ok", "launch", "newPage", "setup" }

\* An initBrowser that launches without closing the browser it holds
initBrowserNoClose(failsAt) ==
    IF failsAt = "launch"
    THEN UNCHANGED << browser, page, launched >>
    ELSE /\ browser' = "open"
         /\ page' = IF failsAt = "newPage" THEN page ELSE "open"
         /\ launched' = launched + 1

initBrowser(failsAt) ==
    LET n1 == AfterClose(browser, launched)
        b1 == IF browser = "null" THEN "null" ELSE "closed"
        p1 == IF page = "null" THEN "null" ELSE "stale"
    IN  IF failsAt = "launch"
        THEN /\ browser' = b1
             /\ page' = p1
             /\ launched' = n1
        ELSE /\ browser' = "open"
             /\ page' = IF failsAt = "newPage" THEN p1 ELSE "open"
             /\ launched' = n1 + 1

BrowserInitDone ==
    /\ prog = "browser"
    /\ pc = "init"
    /\ \E failsAt \in InitSteps :
        /\ initBrowser(failsAt)
        /\ pc' = IF failsAt = "ok" THEN "connect" ELSE "initfail"
    /\ UNCHANGED << const, directVars, tally, amount, runs, queue, i, retryCount,
                    results, ret, lastResp, attempts, rlSeen, dispatched, inflight, waited,
                    sigint, exitCode >>

\* await sleep(3000) after "browser error": runSending returns to the menu
BrowserInitFailSleep ==
    /\ prog = "browser"
    /\ pc = "initfail"
    /\ pc' = "menu"
    /\ UNCHANGED << const, menuVars, directVars, queue, i, retryCount, results, ret,
                    lastResp, attempts, rlSeen, dispatched, inflight, waited, sigint,
                    exitCode >>

\* sendViaBrowser(toWallet, amount) is called with
\* amount = (minAmount + Math.random() * (maxAmount - minAmount)).toFixed(4)
BrowserSendCall ==
    /\ \E a \in 1..MaxAmount : amount' = a
    /\ attempts' = 1
    /\ rlSeen' = 0
    /\ dispatched' = dispatched + 1
    /\ inflight' = inflight + 1
    /\ pc' = "fetch"

\* The end of the loop: "done!", await closeBrowser(), await sleep(3000)
BrowserLoopDone ==
    /\ closeBrowser
    /\ pc' = "done"

\* The wallet-connected check (page.evaluate) after initBrowser: it either
\* answers, and the loop starts with its first task, or it throws, and
\* main().catch closes the browser and exits 1.
BrowserConnectDone ==
    /\ prog = "browser"
    /\ pc = "connect"
    /\ \E ok \in BOOLEAN :
        IF ~ok
        THEN /\ closeBrowser
             /\ Exit(1)
             /\ UNCHANGED << amount, attempts, rlSeen, dispatched, inflight >>
        ELSE IF Len(queue) = 0
        THEN /\ BrowserLoopDone
             /\ UNCHANGED << amount, attempts, rlSeen, dispatched, inflight, exitCode >>
        ELSE /\ BrowserSendCall
             /\ UNCHANGED << browser, page, launched, exitCode >>
    /\ UNCHANGED << const, directVars, tally, runs, queue, i, retryCount, results,
                    ret, lastResp, waited, sigint >>

\* The countdown of the inter-task delay ran out: the next sendViaBrowser
BrowserDelayDone ==
    /\ prog = "browser"
    /\ pc = "delay"
    /\ \E r \in Draws : waited' = [ kind |-> "delay", ms |-> Countdown(prog, r) ]
    /\ BrowserSendCall
    /\ UNCHANGED << const, directVars, tally, browser, page, launched, runs, queue,
                    i, retryCount, results, ret, lastResp, sigint, exitCode >>

\* sendViaBrowser returned: the tally, then the next task's delay or the
\* end of the loop
BrowserSendDone ==
    /\ prog = "browser"
    /\ pc = "fetch"
    /\ \E o \in BrowserOutcomes :
        LET out == IF page = "null" THEN NotInitialized ELSE o IN
        /\ ret' = out
        /\ tally' = BrowserCount(tally, out, amount)
        /\ results' = Append(results, [ toAddress |-> queue[i + 1],
                                        success   |-> out.success,
                                        amount    |-> amount ])
    /\ inflight' = inflight - 1
    /\ i' = i + 1
    /\ waited' = NoWait
    /\ IF i + 1 < Len(queue)
       THEN /\ pc' = "delay"
            /\ UNCHANGED << browser, page, launched >>
       ELSE BrowserLoopDone
    /\ UNCHANGED << const, directVars, amount, runs, queue, retryCount, lastResp,
                    attempts, rlSeen, dispatched, sigint, exitCode >>

\* await sleep(3000) after "done!": runSending returns to the menu
BrowserDoneSleep ==
    /\ prog = "browser"
    /\ pc = "done"
    /\ pc' = "menu"
    /\ UNCHANGED << const, menuVars, directVars, queue, i, retryCount, results, ret,
                    lastResp, attempts, rlSeen, dispatched, inflight, waited, sigint,
                    exitCode >>

\* process.on('SIGINT', async () => { await closeBrowser(); process.exit(0) }):
\* with no browser held the handler exits at once; otherwise it calls
\* browser.close() and the process goes on until the close completes.
BrowserSigint ==
    /\ prog = "browser"
    /\ pc # "exited"
    /\ ~sigint
    /\ sigint' = TRUE
    /\ IF browser = "null"
       THEN /\ Exit(0)
            /\ UNCHANGED << browser, page, launched >>
       ELSE /\ browser' = "closed"
            /\ page' = IF page = "null" THEN "null" ELSE "stale"
            /\ launched' = AfterClose(browser, launched)
            /\ UNCHANGED << pc, exitCode >>
    /\ UNCHANGED << const, directVars, tally, amount, runs, queue, i, retryCount,
                    results, ret, lastResp, attempts, rlSeen, dispatched, inflight, waited >>

\* The handler's browser.close() completed: browser = null; page = null;
\* process.exit(0)
BrowserSigintClosed ==
    /\ prog = "browser"
    /\ pc # "exited"
    /\ sigint
    /\ browser' = "null"
    /\ page' = "null"
    /\ UNCHANGED launched
    /\ Exit(0)
    /\ UNCHANGED << const, directVars, tally, amount, runs, queue, i, retryCount,
                    results, ret, lastResp, attempts, rlSeen, dispatched, inflight, waited,
                    sigint >>

BrowserNext ==
    \/ BrowserMain
    \/ BrowserExit
    \/ BrowserRunSending
    \/ BrowserNoWalletsDone
    \/ BrowserInitDone
    \/ BrowserInitFailSleep
    \/ BrowserConnectDone
    \/ BrowserDelayDone
    \/ BrowserSendDone
    \/ BrowserDoneSleep
    \/ BrowserSigint
    \/ BrowserSigintClosed

Next == DirectNext \/ CliNext \/ BrowserNext

Spec == Init /\ [][Next]_vars

\* The steps of diamante.js that the event loop takes by itself: a pending
\* fetch settles, a timer of sleep() fires, main() runs up to its first await
DirectProgress ==
    \/ DirectMain
    \/ DirectHistoryDone
    \/ DirectHumanDelayDone
    \/ DirectFetchDone
    \/ DirectBackoffDone
    \/ DirectPauseDone

\* Every submission attempt returns and every wait elapses
FairSpec == Spec /\ WF_vars(DirectProgress)

----------------------------------------------------------------------------
(* Properties: vocabulary *)

\* The programs whose submitter retries on a rate-limited answer
Retrying == prog \in { "direct", "interactive" }

\* maxRetries of the program that runs
RetryBudget == IF prog = "interactive" THEN CLI_MAX_RETRIES ELSE MAX_RETRIES

\* The last answer received was a rate-limited one
LastRateLimited ==
    IF prog = "interactive" THEN CliRateLimited(lastResp) ELSE DirectRateLimited(lastResp)

\* The queue of the current run has been built
QueueBuilt ==
    \/ prog = "direct" /\ iter >= 1
    \/ prog # "direct" /\ runs >= 1 /\ cfg.wallets # << >>

\* The last task dispatched has returned its result to the loop
TaskDone ==
    /\ Len(results) > 0
    /\ pc \in { "delay", "pause", "done" } \/ (pc = "exited" /\ summary)

\* The dispatch loop has processed its whole queue and was not interrupted
RunComplete ==
    /\ ~sigint
    /\ QueueBuilt
    /\ IF prog = "direct" THEN pc = "pause" \/ (pc = "exited" /\ summary)
       ELSE pc = "done"

NumFailed(res) == Cardinality({ k \in 1..Len(res) : ~res[k].success })

RECURSIVE SumSuccess(_)
SumSuccess(res) ==
    IF res = << >> THEN 0
    ELSE (IF Head(res).success THEN Head(res).amount ELSE 0) + SumSuccess(Tail(res))

----------------------------------------------------------------------------
(* Recipient Queue Builder *)

\* C1: for a non-empty recipient list and sendPerWallet k >= 1 the built
\* queue has length |R| * k and holds every recipient k times per
\* occurrence in R: the shuffle only permutes the flat list.
QueueCompleteness ==
    (QueueBuilt /\ cfg.wallets # << >> /\ cfg.sendPerWallet >= 1) =>
        /\ Len(queue) = Len(cfg.wallets) * cfg.sendPerWallet
        /\ \A w \in WalletSet :
              Count(queue, w) = cfg.sendPerWallet * Count(cfg.wallets, w)

\* A queue of two recipients, two sends each, in another order than the
\* flat list
QueueShuffled ==
    /\ QueueBuilt
    /\ Len(cfg.wallets) = 2
    /\ cfg.sendPerWallet = 2
    /\ Len(queue) = 4
    /\ queue # Flat(cfg.wallets, cfg.sendPerWallet)
    /\ queue[1] = AllWallets[2]

----------------------------------------------------------------------------
(* Retry Controller *)

\* C2: whatever the answers, one task is submitted at most maxRetries + 1
\* times, and the result handed to the loop is terminal, never a retry.
RetryTermination ==
    Retrying =>
        /\ attempts <= RetryBudget + 1
        /\ TaskDone => (~ret.retry /\ ret # NoRet)

\* A task that used all maxRetries + 1 submissions and returned
RetriedToTheEnd ==
    /\ prog = "interactive"
    /\ TaskDone
    /\ attempts = RetryBudget + 1
    /\ ~ret.retry

\* C3 as stated: at most maxRetries submissions in total for one task
AtMostMaxRetriesAttempts ==
    Retrying => attempts <= RetryBudget

\* C3, amended: at most maxRetries reissues, that is maxRetries + 1
\* submissions in total; a task answered rate-limited every time is
\* submitted exactly maxRetries + 1 times, each reissue with the attempt
\* counter one higher.
MaxRetriesReissues ==
    Retrying =>
        /\ retryCount <= RetryBudget
        /\ attempts > 0 => retryCount = attempts - 1
        /\ pc \in { "backoff", "countdown" } => attempts <= RetryBudget
        /\ (TaskDone /\ LastRateLimited) => attempts = RetryBudget + 1

\* A task of diamante.js answered rate-limited on every submission
AlwaysRateLimited ==
    /\ prog = "direct"
    /\ TaskDone
    /\ LastRateLimited
    /\ rlSeen = attempts
    /\ attempts = MAX_RETRIES + 1

\* C4: j rate-limited answers (j <= maxRetries) and then another answer
\* make exactly j + 1 submissions, and the result is that of the last one.
RetryThenAnswer ==
    (Retrying /\ TaskDone /\ ~LastRateLimited) =>
        /\ rlSeen <= RetryBudget
        /\ attempts = rlSeen + 1
        /\ ret.success = (~lastResp.throws /\ lastResp.json /\ lastResp.success)

\* Two rate-limited answers, then success on the third submission
TwoRateLimitedThenSuccess ==
    /\ Retrying
    /\ TaskDone
    /\ rlSeen = 2
    /\ attempts = 3
    /\ ret.success

\* C5 as stated: with the budget used up and the answer still
\* rate-limited the result is the failure "rate limit exceeded"
ExhaustedIsRateLimitExceeded ==
    (Retrying /\ TaskDone /\ LastRateLimited) =>
        (~ret.success /\ ret.error = "rate limit exceeded")

\* C5, amended: with the budget used up and the answer still rate-limited
\* no further submission is made and the last answer is classified like
\* any terminal answer: success if its body says so, and otherwise a
\* failure whose reason is the answer's message or the program's fallback
\* text; the task is counted exactly once.
ExhaustedIsTerminal ==
    (Retrying /\ TaskDone /\ LastRateLimited) =>
        /\ attempts = RetryBudget + 1
        /\ inflight = 0
        /\ ~ret.retry
        /\ ret.success = lastResp.success
        /\ ~ret.success =>
              ret.error = IF lastResp.message # "" THEN lastResp.message
                          ELSE IF prog = "direct" THEN "{json}" ELSE "Failed"
        /\ IF prog = "direct"
           THEN /\ stats.failed = NumFailed(results)
                /\ stats.success + stats.failed = Len(results)
           ELSE /\ tally.failed = NumFailed(results)
                /\ tally.success + tally.failed = Len(results)

\* A task that failed with the budget used up, reported with the API's
\* message
ExhaustedFailure ==
    /\ Retrying
    /\ TaskDone
    /\ LastRateLimited
    /\ ~ret.success
    /\ ret.error = "Too Many Requests"
    /\ NumFailed(results) = 1

----------------------------------------------------------------------------
(* Dispatch Loop and Statistics *)

\* C6: after a queue of length N is processed without cancellation,
\* success + failed = total = N and there are N results.  (diamante.js
\* keeps its statistics over all rounds of the run; the menu programs
\* count per run, with the queue length as the total.)
StatisticsConsistency ==
    RunComplete =>
        IF prog = "direct"
        THEN /\ stats.success + stats.failed = stats.total
             /\ stats.total = iter * Len(queue)
             /\ Len(results) = iter * Len(queue)
        ELSE /\ tally.success + tally.failed = Len(queue)
             /\ Len(results) = Len(queue)

\* A completed run of diamante.js with a retried task, a failure and a
\* success
MixedRunComplete ==
    /\ prog = "direct"
    /\ RunComplete
    /\ Len(results) >= 2
    /\ stats.success >= 1
    /\ stats.failed >= 1
    /\ attempts >= 2

\* C7: at the end of a run totalAmount is the sum of the amounts of the
\* tasks that ended in success; failed tasks and retried attempts add
\* nothing.
TotalAmountIsSumOfSuccesses ==
    RunComplete =>
        /\ prog = "direct" => stats.amount = SumSuccess(results)
        /\ prog = "browser" => tally.totalAmount = SumSuccess(results)

\* A completed run with a failure, a retried task and a success of an
\* amount other than 1
AmountRunComplete ==
    /\ prog = "direct"
    /\ RunComplete
    /\ cfg.amount = 2
    /\ stats.amount = 2
    /\ stats.failed >= 1
    /\ rlSeen >= 1

\* C8: at most one submission is in flight, retries included, and a task is
\* not submitted before all tasks ahead of it have their result.
StrictlySequential ==
    /\ inflight \in { 0, 1 }
    /\ inflight = 1 => (pc = "fetch" \/ pc = "exited")
    /\ pc = "fetch" => inflight = 1
    /\ dispatched <= Len(results) + 1
    /\ inflight = 1 => dispatched = Len(results) + 1
    /\ pc \in { "backoff", "countdown" } => dispatched = Len(results) + 1
    /\ pc = "delay" => dispatched = Len(results)

\* The retry of a later task of the queue in flight
RetryInFlight ==
    /\ Retrying
    /\ pc = "fetch"
    /\ inflight = 1
    /\ retryCount >= 1
    /\ Len(results) >= 1

\* A step that records a failed result
FailedTaskRecorded ==
    /\ Len(results') = Len(results) + 1
    /\ ~results'[Len(results')].success

\* After the step the loop waits to dispatch the next task, or, with the
\* queue processed, ends the round in the ordinary way
LoopContinues ==
    IF i' < Len(queue)
    THEN pc' = "delay" /\ exitCode' = NoExit
    ELSE pc' \in { "pause", "done" } \/ (pc' = "exited" /\ summary')

----------------------------------------------------------------------------
(* Exit code *)

\* C10 as stated, for a process that dispatched tasks: an interrupted run
\* exits with a code that is neither the success code nor the failure
\* code, and otherwise the code is 0 only if no task failed.
ExitCodeConvention ==
    (pc = "exited" /\ dispatched > 0) =>
        /\ sigint => exitCode \notin { 0, 1 }
        /\ (~sigint /\ NumFailed(results) > 0) => exitCode # 0
        /\ (~sigint /\ summary /\ NumFailed(results) = 0) => exitCode = 0

----------------------------------------------------------------------------
(* Configuration errors *)

\* C11: with an empty recipient list or no credential no task is ever
\* dispatched and no request is made; diamante.js exits with code 1 from
\* the configuration check, the menu programs exit with code 1 when no
\* credential is supplied and end the run with an error message when the
\* recipient list is empty.
ConfigErrorNoDispatch ==
    (cfg.wallets = << >> \/ ~cfg.token) =>
        /\ dispatched = 0
        /\ attempts = 0
        /\ inflight = 0
        /\ results = << >>
        /\ pc \in { "start", "menu", "nowallets", "exited" }
        /\ (prog = "direct" /\ pc = "exited") => (exitCode = 1 /\ ~summary /\ iter = 0)
        /\ (prog # "direct" /\ ~cfg.token /\ pc = "exited" /\ ~sigint) => exitCode = 1

\* diamante.js given a credential and an empty recipient list has exited
\* from the configuration check
EmptyWalletsExit ==
    /\ prog = "direct"
    /\ cfg.token
    /\ cfg.wallets = << >>
    /\ pc = "exited"
    /\ exitCode = 1

\* C12 as stated: with sendPerWallet given as 0 or negative the run ends
\* in a configuration error: no round is entered, no task is dispatched
\* and no summary of a run is printed.
NonPositiveSendsRejected ==
    cfg.sendsArg <= 0 =>
        /\ dispatched = 0
        /\ iter = 0
        /\ ~summary
        /\ pc \notin { "fetch", "init", "done" }

----------------------------------------------------------------------------
(* Cancellation *)

\* C13 as stated: an interruption never ends the run while a submission
\* is in flight: when the process has ended on a signal, every task that
\* was dispatched has its result recorded.
InterruptAtBoundary ==
    (pc = "exited" /\ sigint) =>
        /\ inflight = 0
        /\ Len(results) = dispatched

\* C14 as stated: a run cancelled after m tasks ends gracefully: the m
\* results are reported in a summary and the resources are released.
CancelledRunReported ==
    (pc = "exited" /\ sigint /\ Retrying /\ QueueBuilt /\ Len(results) > 0) =>
        /\ summary
        /\ launched = 0

----------------------------------------------------------------------------
(* Browser session *)

\* C15 as stated: whenever a run of the browser program has ended (back
\* at the menu, or the process exited) no browser it launched is still
\* open.
BrowserClosedAfterRun ==
    (prog = "browser" /\ runs >= 1 /\ pc \in { "done", "menu", "exited" }) =>
        /\ launched = 0
        /\ browser # "open"

\* C16 as stated: when initBrowser fails the run is reported as failed
\* with no task dispatched and nothing of the browser left open.
InitFailureReleased ==
    pc = "initfail" =>
        /\ dispatched = 0
        /\ launched = 0

----------------------------------------------------------------------------
(* Rounds *)

\* A step of diamante.js that enters a round
RoundEntered == prog = "direct" /\ iter' # iter

\* C17: with continuous off the loop runs exactly one round; with
\* continuous on and maxIter = r >= 1 exactly r rounds, r * N tasks in
\* all; with continuous on and no maxIter the run never ends by itself,
\* every pause being followed by the next round.  Every round has its own
\* queue, built and shuffled from the same recipients.
RoundsAsConfigured ==
    /\ [](prog = "direct" =>
            /\ ~cfg.continuous => iter <= 1
            /\ (cfg.continuous /\ cfg.maxIter >= 1) => iter <= cfg.maxIter
            /\ (cfg.continuous /\ cfg.maxIter = 0) => ~summary
            /\ (pc = "exited" /\ summary) =>
                  /\ iter = IF cfg.continuous THEN cfg.maxIter ELSE 1
                  /\ Len(results) = iter * Len(queue)
            /\ pc = "pause" => cfg.continuous)
    /\ [][RoundEntered =>
            /\ iter' = iter + 1
            /\ queue' \in buildQueue(cfg.wallets, cfg.sendPerWallet)]_vars
    /\ [][(prog = "direct" /\ pc = "pause" /\ pc' # "pause") =>
            (sigint' \/ iter' = iter + 1)]_vars

\* A continuous run of two rounds of two tasks each has ended
TwoRoundsRun ==
    /\ prog = "direct"
    /\ cfg.continuous
    /\ cfg.maxIter = 2
    /\ pc = "exited"
    /\ summary
    /\ iter = 2
    /\ Len(results) = 4

\* A round of diamante.js has just been completed
RoundComplete ==
    prog = "direct" /\ iter >= 1 /\ (pc = "pause" \/ (pc = "exited" /\ summary))

\* C18: the statistics are cumulative over the rounds of one invocation:
\* after r completed rounds of N tasks total = r * N, and success, failed
\* and amount are the counts and the sum over the results of all r rounds;
\* entering a round resets the per-wallet send counter and leaves the
\* statistics as they are.
CumulativeStatistics ==
    /\ [](RoundComplete =>
            /\ stats.total = iter * Len(queue)
            /\ Len(results) = iter * Len(queue)
            /\ stats.failed = NumFailed(results)
            /\ stats.success = Len(results) - NumFailed(results)
            /\ stats.amount = SumSuccess(results))
    /\ [][(RoundEntered /\ iter >= 1) =>
            /\ sendCount' = ZeroCount
            /\ stats' = stats
            /\ results' = results]_vars

\* Two completed rounds with a success in the first and a failure and a
\* success in the second
SecondRoundCounted ==
    /\ RoundComplete
    /\ iter = 2
    /\ stats.total = 4
    /\ results[1].success
    /\ ~results[3].success
    /\ results[4].success
    /\ stats.failed >= 1
    /\ stats.amount >= 2 * cfg.amount

----------------------------------------------------------------------------
(* Order of the queue *)

\* C19 as stated: in a queue built from at least two distinct wallets no
\* two adjacent positions hold the same wallet.
NoAdjacentRepeats ==
    (QueueBuilt /\ Cardinality(Range(cfg.wallets)) >= 2) =>
        \A k \in 1..(Len(queue) - 1) : queue[k] # queue[k + 1]

----------------------------------------------------------------------------
(* Rate limiting seen from the loop *)

\* A step that appends a result
ResultRecorded == Len(results') = Len(results) + 1

\* C20: a rate-limited answer is never observable from the loop: every
\* result recorded and every outcome counted is a terminal one.  A step
\* that records a result records a non-retry outcome, and one that is
\* rate-limited only with the retry budget used up; a step into a backoff
\* wait records and counts nothing; the counters always agree with the
\* recorded results.
RateLimitNotObservable ==
    /\ [](Retrying =>
            /\ TaskDone => ~ret.retry
            /\ prog = "direct" => stats.success + stats.failed = Len(results)
            /\ prog = "interactive" => tally.success + tally.failed = Len(results))
    /\ [][(Retrying /\ ResultRecorded) =>
            /\ ~ret'.retry
            /\ LastRateLimited' => attempts = RetryBudget + 1]_vars
    /\ [][(Retrying /\ pc' \in { "backoff", "countdown" }) =>
            /\ results' = results
            /\ stats'.success = stats.success
            /\ stats'.failed = stats.failed
            /\ tally' = tally]_vars

\* The second task of a run waits for its third submission after two
\* rate-limited answers, with one result recorded and counted
RetryPendingUncounted ==
    /\ prog = "interactive"
    /\ pc = "countdown"
    /\ rlSeen = 2
    /\ Len(results) = 1
    /\ tally.success + tally.failed = 1

----------------------------------------------------------------------------
(* Delays *)

\* A step that issues the first request of a task
TaskDispatched == attempts' = 1 /\ inflight' = inflight + 1

\* C21: the first task of a run is submitted with no delay before it, and
\* every later task, the first task of a later round included, directly
\* after one inter-task delay; no delay is slept at any other point.
DelayBeforeLaterTasks ==
    /\ [](/\ pc = "delay" => (dispatched >= 1 /\ dispatched = Len(results))
          /\ (pc = "fetch" /\ attempts = 1) => (waited.kind = "delay" <=> dispatched > 1))
    /\ [][TaskDispatched =>
            /\ dispatched' = 1 => pc # "delay"
            /\ dispatched' > 1 => pc = "delay"]_vars
    /\ [][(pc = "delay" /\ pc' # "delay") => (TaskDispatched \/ pc' = "exited")]_vars

\* The first task of the second round of diamante.js, submitted after a
\* delay
SecondRoundFirstTaskDelayed ==
    /\ prog = "direct"
    /\ iter = 2
    /\ i = 0
    /\ pc = "fetch"
    /\ attempts = 1
    /\ waited.kind = "delay"

\* C22: every inter-task delay that elapsed lasted at least the configured
\* minimum and at most the configured maximum of the program, floored
\* countdowns included
DelayWithinRange ==
    waited.kind = "delay" =>
        /\ DelayRange(prog).min <= waited.ms
        /\ waited.ms <= DelayRange(prog).max

\* Backoff -------------------------------------------------------------------

\* The first wait of the program that runs, and what each further wait adds,
\* in seconds
BackoffBase == IF prog = "interactive" THEN 15 ELSE 5

BackoffIncrement == IF prog = "interactive" THEN 10 ELSE 3

\* A request of the current task is issued again
Reissued == attempts >= 1 /\ attempts' = attempts + 1

\* C23: a request is issued again only when the backoff wait has elapsed, and
\* the wait before the reissue that follows the r-th rate-limited answer
\* (r = 0, 1, 2) lasted exactly base + r * increment seconds: 5 + 3r in
\* diamante.js, 15 + 10r in cli.js
LinearBackoff ==
    [][Reissued =>
          /\ pc \in { "backoff", "countdown" }
          /\ pc' = "fetch"
          /\ rlSeen \in 1..RetryBudget
          /\ waited'.kind = "backoff"
          /\ waited'.ms = 1000 * (BackoffBase + (rlSeen - 1) * BackoffIncrement)]_vars

\* The third reissue of a task went out, after the longest wait
ThirdBackoffElapsed ==
    /\ Retrying
    /\ pc = "fetch"
    /\ attempts = 4
    /\ waited.kind = "backoff"
    /\ waited.ms = 1000 * (BackoffBase + 2 * BackoffIncrement)

----------------------------------------------------------------------------
(* Statistics of an invocation *)

\* A dispatch loop is invoked: runSending from the menu, or the one
\* sendRound of diamante.js on its new sender
LoopInvoked == runs' = runs + 1 \/ (prog = "direct" /\ iter = 0 /\ iter' = 1)

\* C24: the statistics of an invocation of the dispatch loop count only the
\* tasks of that invocation: an invocation starts from zero counters (with
\* at most its first task counted as dispatched), and at every task
\* boundary of a run started from the menu, the second one included, the
\* counters are the counts over the results of that run alone.
StatisticsPerInvocation ==
    /\ [][LoopInvoked =>
            /\ results' = << >>
            /\ IF prog = "direct"
               THEN stats' = [ total |-> dispatched', success |-> 0, failed |-> 0,
                               amount |-> 0, start |-> dispatched' = 1 ]
               ELSE tally' = ZeroTally]_vars
    /\ []((prog # "direct" /\ runs >= 1 /\ pc \in { "delay", "done" }) =>
            /\ Len(results) <= Len(queue)
            /\ tally.failed = NumFailed(results)
            /\ tally.success = Len(results) - NumFailed(results)
            /\ prog = "browser" => tally.totalAmount = SumSuccess(results))

\* The second run from the menu is complete, with one success and one
\* failure of its own after the two tasks of the first run
SecondRunCounted ==
    /\ prog = "interactive"
    /\ runs = 2
    /\ pc = "done"
    /\ Len(results) = 2
    /\ tally.success = 1
    /\ tally.failed = 1

----------------------------------------------------------------------------
(* Per-wallet tally of printSummary *)

ZeroWalletStat == [ success |-> 0, failed |-> 0 ]

\* A tally that starts with an entry for every configured wallet
RECURSIVE walletStatsPrefilled(_)
walletStatsPrefilled(res) ==
    IF res = << >> THEN [ w \in Range(cfg.wallets) |-> ZeroWalletStat ]
    ELSE LET r    == res[Len(res)]
             prev == walletStatsPrefilled(SubSeq(res, 1, Len(res) - 1))
         IN  IF r.success
             THEN [ prev EXCEPT ![r.toAddress].success = @ + 1 ]
             ELSE [ prev EXCEPT ![r.toAddress].failed = @ + 1 ]

\* results.forEach(r => { if (!walletStats[r.toAddress]) walletStats[...] =
\* { success: 0, failed: 0 }; r.success ? ...success++ : ...failed++ })
RECURSIVE walletStats(_)
walletStats(res) ==
    IF res = << >> THEN [ w \in {} |-> ZeroWalletStat ]
    ELSE LET r    == res[Len(res)]
             prev == walletStats(SubSeq(res, 1, Len(res) - 1))
             seen == IF r.toAddress \in DOMAIN prev THEN prev
                     ELSE [ w \in DOMAIN prev \cup { r.toAddress } |->
                              IF w \in DOMAIN prev THEN prev[w] ELSE ZeroWalletStat ]
         IN  IF r.success
             THEN [ seen EXCEPT ![r.toAddress].success = @ + 1 ]
             ELSE [ seen EXCEPT ![r.toAddress].failed = @ + 1 ]

\* The summary of diamante.js was printed with its per-wallet part
\* (walletCount <= 10)
PerWalletPrinted ==
    prog = "direct" /\ pc = "exited" /\ summary /\ Len(cfg.wallets) <= 10

\* The results recorded for wallet w
ResultsFor(w) == { k \in 1..Len(results) : results[k].toAddress = w }

\* C25: in the printed summary a recipient has a per-wallet entry exactly
\* when a result was recorded for it, and the success and failed counts of
\* an entry add up to the number of results recorded for that recipient.
PerWalletFromResults ==
    PerWalletPrinted =>
        LET perWallet == walletStats(results) IN
        /\ DOMAIN perWallet = { w \in WalletSet : ResultsFor(w) # {} }
        /\ \A w \in DOMAIN perWallet :
              /\ perWallet[w].success + perWallet[w].failed = Cardinality(ResultsFor(w))
              /\ perWallet[w].failed =
                    Cardinality({ k \in ResultsFor(w) : ~results[k].success })

\* A summary over two wallets, one of them with a success and a failure
TwoWalletSummary ==
    /\ PerWalletPrinted
    /\ Cardinality(DOMAIN walletStats(results)) = 2
    /\ \E w \in DOMAIN walletStats(results) :
          walletStats(results)[w] = [ success |-> 1, failed |-> 1 ]

----------------------------------------------------------------------------
(* Results and statistics in step *)

\* The loop stands between two tasks, or behind the last one
TaskBoundary ==
    /\ prog = "direct"
    /\ iter >= 1
    /\ pc \in { "delay", "pause" } \/ (pc = "exited" /\ summary)

\* C26: between two tasks the number of results equals stats.total and
\* success + failed; in every state, waits and retries of the current task
\* included, success + failed <= total <= success + failed + 1, the one
\* task ahead being the one in progress.
ResultsAndStatisticsInStep ==
    /\ prog = "direct" =>
          /\ stats.success + stats.failed <= stats.total
          /\ stats.total <= stats.success + stats.failed + 1
          /\ stats.success + stats.failed = Len(results)
    /\ TaskBoundary =>
          /\ Len(results) = stats.total
          /\ stats.total = stats.success + stats.failed
    /\ (prog # "direct" /\ runs >= 1 /\ pc \in { "delay", "done" }) =>
          tally.success + tally.failed = Len(results)

\* A retry of the second task is waiting: one result, the total one ahead
SecondTaskBackingOff ==
    /\ prog = "direct"
    /\ pc = "backoff"
    /\ Len(results) = 1
    /\ stats.total = 2
    /\ stats.success + stats.failed = 1

----------------------------------------------------------------------------
(* Send n/k *)

\* The configured recipients are pairwise distinct and k >= 1
DistinctRecipients ==
    /\ prog = "direct"
    /\ cfg.sendPerWallet >= 1
    /\ Cardinality(Range(cfg.wallets)) = Len(cfg.wallets)

\* C27: for distinct recipients and sendPerWallet = k, the number n of
\* "Send n/k" of a dispatched task is the number of tasks of its recipient
\* dispatched so far in the round, itself included, so it runs through
\* 1..k in dispatch order and never exceeds k; when a round is complete
\* every recipient has been counted k times; the first task of every round
\* carries number 1.
SendNumberWithinRound ==
    /\ []((DistinctRecipients /\ pc \in { "fetch", "backoff" }) =>
            /\ sendNum = Count(SubSeq(queue, 1, i + 1), queue[i + 1])
            /\ sendNum = sendCount[queue[i + 1]]
            /\ sendNum \in 1..cfg.sendPerWallet)
    /\ []((DistinctRecipients /\ RoundComplete) =>
            \A w \in Range(cfg.wallets) : sendCount[w] = cfg.sendPerWallet)
    /\ [][(DistinctRecipients /\ TaskDispatched /\ i' = 0) => sendNum' = 1]_vars

\* The last task of the second round is the second send to its recipient,
\* which the first round has sent to twice already
SecondRoundSecondSend ==
    /\ DistinctRecipients
    /\ iter = 2
    /\ pc = "fetch"
    /\ Len(results) = 3
    /\ i = 1
    /\ sendNum = 2
    /\ cfg.sendPerWallet = 2

----------------------------------------------------------------------------
(* Termination *)

\* diamante.js got past its configuration checks into sendRound
RunStarted == prog = "direct" /\ ~ConfigError(cfg) /\ ~cfg.history

\* Continuous mode is off, or on with maxIter >= 1
BoundedRun == RunStarted /\ (~cfg.continuous \/ cfg.maxIter >= 1)

\* Continuous mode is on and maxIter is absent, null or 0
UnboundedRun == RunStarted /\ cfg.continuous /\ cfg.maxIter = 0

\* C28: when every attempt returns and every wait elapses, a run with
\* continuous mode off, or on with maxIter >= 1, eventually prints the
\* final summary and ends, unless the user interrupts it first; a run with
\* continuous mode on and no maxIter never prints the final summary.
BoundedRunTerminates ==
    /\ BoundedRun ~> (pc = "exited" /\ (summary \/ sigint))
    /\ [](UnboundedRun => ~summary)

\* A continuous run of two rounds has printed its summary
BoundedContinuousDone ==
    /\ BoundedRun
    /\ cfg.continuous
    /\ iter = 2
    /\ pc = "exited"
    /\ summary

----------------------------------------------------------------------------
(* The two retry implementations *)

\* What DiamanteSender.send does with the answer r to its attempt number
\* rc: sleep and call itself with rc + 1, or return the terminal result
send(r, rc) ==
    IF DirectRateLimited(r) /\ MayRetry(rc)
    THEN [ success |-> FALSE, retry |-> TRUE ]
    ELSE [ success |-> DirectOutcome(r).success, retry |-> FALSE ]

\* Rate limiting is signalled by status 429 alone and success is a boolean:
\* a JSON body without the 'guardian' message, or a request that fails
InScope(r) == r.throws \/ (r.json /\ r.message # "guardian cooldown")

\* The answer to a request of the current task arrives
AnswerReceived == Retrying /\ pc = "fetch" /\ pc' # "fetch" /\ ~sigint'

----------------------------------------------------------------------------
(* Browser session *)

\* A step in which closeBrowser() runs to its end: after the send loop, on
\* 'exit' from the menu, or in main().catch
CloseBrowserRuns ==
    /\ prog = "browser"
    /\ ~sigint'
    /\ \/ pc = "fetch" /\ pc' = "done"
       \/ pc = "menu" /\ pc' = "exited"
       \/ pc = "connect" /\ pc' = "exited"

\* C30: at most one browser process is alive at any time, over any sequence
\* of runs; initBrowser leaves exactly the browser it launched (none when
\* the launch fails), whatever was held before; closeBrowser leaves both
\* handles null and no browser alive; no page exists without a browser
\* handle, and a sendViaBrowser that finds no page returns 'Browser not
\* initialized' and leaves the handles alone.
SingleBrowserSession ==
    /\ [](launched \in { 0, 1 })
    /\ [](browser = "null" => page = "null")
    /\ [][(prog = "browser" /\ pc = "init" /\ pc' # "init" /\ ~sigint') =>
            launched' = (IF browser' = "open" THEN 1 ELSE 0)]_vars
    /\ [][CloseBrowserRuns =>
            /\ browser' = "null"
            /\ page' = "null"
            /\ launched' = 0]_vars
    /\ [][(prog = "browser" /\ pc = "fetch" /\ page = "null"
              /\ Len(results') = Len(results) + 1) =>
            /\ ret' = NotInitialized
            /\ page' = "null"]_vars

\* The second run from the menu holds exactly one browser after its
\* initBrowser
SecondRunOneBrowser ==
    /\ prog = "browser"
    /\ runs = 2
    /\ pc = "connect"
    /\ ~sigint
    /\ browser = "open"
    /\ launched = 1
    /\ results = << >>

====
